---- MODULE Spec2Model ----
(***************************************************************************)
(* Model of the interview scoring and aggregation pipeline:                *)
(*   - InterviewEngine.evaluate_answer and generate_final_report           *)
(*     (src/interview_engine_new.py),                                      *)
(*   - InterviewEngine.generate_questions (src/interview_engine_new.py),   *)
(*   - the answer store (src/database_methods.py),                         *)
(*   - the interview flow of the UI (src/interview_ui.py): setup, the      *)
(*     interview interface and the completion page of one browser session. *)
(*                                                                         *)
(* Numbers.  A score is an integer number of tenths (80 is 8.0).  A raw    *)
(* number of the grading service is an integer number of hundredths (725   *)
(* is 7.25).  A weight is an integer number of hundredths (40 is 0.4).  A  *)
(* rate is a record [n, d] standing for the quotient n / d.                *)
(*                                                                         *)
(* Rounding.  Python's round(x, 1) rounds the double x.  Off a decimal tie *)
(* (x.x5) that is the rounding of the exact quotient.  evaluate_answer     *)
(* rounds raw numbers that are multiples of 0.25, which a double holds     *)
(* exactly: there a tie goes to the even digit (Round1).  The report       *)
(* rounds averages and a weighted mean whose weights no double holds       *)
(* exactly: at a tie the representation error decides the digit.  The      *)
(* model cannot compute that error, so float_tie, fixed at the start of a  *)
(* behaviour, says which neighbour a tie goes to, and both are explored    *)
(* (RoundTie).                                                             *)
(***************************************************************************)
EXTENDS Integers, Sequences, FiniteSets, TLC

VARIABLES
    scorer_output,      \* evaluate_answer: what the grading call produced
    evaluation,         \* evaluate_answer: the returned Evaluation, or NoEvaluation
    interview_results,  \* generate_final_report: its interview_results argument
    final_report,       \* generate_final_report: the returned report, or NoReport
    narrative_calls,    \* generate_final_report: narrative-service calls made
    float_tie,          \* the digit a decimal tie of the report rounds to
    questions,          \* store: the rows of interview_questions_new, by display_order
    answers,            \* store: the rows of interview_answers, in insertion order
    last_save,          \* store: what the last save_interview_answer call did
    first_report,       \* generate_final_report: the report of an earlier run on the same list
    num_questions,      \* generate_questions: its num_questions argument
    generation,         \* generate_questions: what the generation call produced
    generated,          \* generate_questions: what it returned, or NoGenerated
    session,            \* UI: the keys of st.session_state that select the view
    interviews,         \* store: the rows of interviews_new, by id
    last_setup,         \* UI: what the last run of the setup handler did
    last_op,            \* UI: what the last handler of the interview pages did
    sessions,           \* UI: st.session_state of every browser session, two sessions case
    in_flight,          \* UI: the external call each browser session is waiting for
    engine_calls,       \* engines: the external call of each engine and how it ended
    query,              \* store: the run of execute_query
    narrative_prompt    \* generate_final_report: the counts written into the last prompt

evalVars == <<scorer_output, evaluation>>
reportVars == <<interview_results, final_report, narrative_calls, float_tie>>
storeVars == <<questions, answers, last_save>>
genVars == <<num_questions, generation, generated>>
flowVars == <<session, interviews, last_setup, last_op>>
extraVars == <<sessions, in_flight, engine_calls, query, narrative_prompt>>
vars ==
    <<scorer_output, evaluation, interview_results, final_report, narrative_calls, float_tie,
      questions, answers, last_save, first_report, num_questions, generation, generated,
      session, interviews, last_setup, last_op, sessions, in_flight,
      engine_calls, query, narrative_prompt>>

-----------------------------------------------------------------------------
(* Bounds of the model *)

MaxResults == 3          \* longest interview_results list given to the report
MaxQuestions == 2        \* most questions of the stored interview
MaxAnswers == 3          \* most rows of interview_answers

-----------------------------------------------------------------------------
(* Arithmetic helpers *)

\* Python round(n / d, 1) with n / d already counted in tenths: the nearest
\* integer to n / d, ties to the even one (n >= 0, d > 0).
Round1(n, d) ==
    LET q == n \div d
        r == n % d
    IN  IF 2 * r < d THEN q
        ELSE IF 2 * r > d THEN q + 1
        ELSE IF q % 2 = 0 THEN q ELSE q + 1

\* round(n / d, 1) of the report: off a tie the nearest integer, at a tie the
\* neighbour float_tie names.
RoundTie(n, d) ==
    LET q == n \div d
        r == n % d
    IN  IF 2 * r < d THEN q
        ELSE IF 2 * r > d THEN q + 1
        ELSE IF float_tie = "down" THEN q ELSE q + 1

RECURSIVE SumSeq(_)
SumSeq(s) == IF s = <<>> THEN 0 ELSE Head(s) + SumSeq(Tail(s))

RECURSIVE MapScore(_)
MapScore(s) == IF s = <<>> THEN <<>> ELSE <<Head(s).answer.score>> \o MapScore(Tail(s))

RateLess(r, pn, pd) == r.n * pd < pn * r.d      \* r < pn / pd
RateEq(r1, r2) == r1.n * r2.d = r2.n * r1.d

-----------------------------------------------------------------------------
(* InterviewEngine.generate_final_report (src/interview_engine_new.py) *)

\* The keys of scores_by_type, in the order the dict is built.
Categories == <<"technical", "scenario", "behavioral", "problem_solving">>
CategorySet == {Categories[i] : i \in 1..Len(Categories)}

\* weights, in hundredths.
weights(c) ==
    CASE c = "technical"       -> 40
      [] c = "scenario"        -> 30
      [] c = "behavioral"      -> 15
      [] c = "problem_solving" -> 15
      [] OTHER                 -> 0

\* An item of interview_results without an answer ('answer' is None).
NoAnswer == [present |-> FALSE, skipped |-> FALSE, score |-> 0]

\* `if not answer_data`: the item counts as answered when its answer is there.
Answered(item) == item.answer.present

\* completion_rate = answered_questions / total_questions, 0 for an empty list.
completion_rate(results) ==
    IF Len(results) > 0
    THEN [n |-> Len(SelectSeq(results, Answered)), d |-> Len(results)]
    ELSE [n |-> 0, d |-> 1]

\* scores_by_type: for each category the score of every answered item of that
\* type, in list order.  The loop reads evaluation['score'] of each answer and
\* never looks at 'skipped'; an item of another type is in no list.
scores_by_type(results) ==
    [c \in CategorySet |->
        LET OfType(item) == Answered(item) /\ item.type = c
        IN  MapScore(SelectSeq(results, OfType))]

\* A variant of avg_scores that keeps the sum of a category's scores instead
\* of dividing it by their number.
avg_scores_summed(sbt) ==
    [c \in CategorySet |-> [num |-> SumSeq(sbt[c]), den |-> 1]]

\* avg_scores[c] as the quotient num / den (0 for a category with no score).
avg_scores(sbt) ==
    [c \in CategorySet |->
        IF sbt[c] # <<>> THEN [num |-> SumSeq(sbt[c]), den |-> Len(sbt[c])]
        ELSE [num |-> 0, den |-> 1]]

\* A weighted mean over all four categories, which a category without scores
\* dilutes: what Counted is compared with.
CountedDiluted(sbt) == CategorySet

\* `if scores_by_type[q_type]`: the categories that enter the weighted mean.
Counted(sbt) == {c \in CategorySet : sbt[c] # <<>>}

\* The product of the denominators of the averages of the categories in S.
RECURSIVE DenProduct(_, _)
DenProduct(avg, S) ==
    IF S = {} THEN 1
    ELSE LET c == CHOOSE x \in S : TRUE
         IN  avg[c].den * DenProduct(avg, S \ {c})

\* L times the sum of avg_scores[c] * weights[c] over the categories in S.
RECURSIVE WeightedSum(_, _, _)
WeightedSum(avg, S, L) ==
    IF S = {} THEN 0
    ELSE LET c == CHOOSE x \in S : TRUE
         IN  avg[c].num * weights(c) * (L \div avg[c].den) + WeightedSum(avg, S \ {c}, L)

\* total_weight.
RECURSIVE TotalWeight(_)
TotalWeight(S) ==
    IF S = {} THEN 0
    ELSE LET c == CHOOSE x \in S : TRUE IN weights(c) + TotalWeight(S \ {c})

\* round(overall_score, 1): the weighted mean of avg_scores over the counted
\* categories, 0 when total_weight is 0.
overall_score(sbt) ==
    LET avg == avg_scores(sbt)
        S == Counted(sbt)
        L == DenProduct(avg, S)
        W == TotalWeight(S)
    IN  IF W > 0 THEN RoundTie(WeightedSum(avg, S, L), L * W) ELSE 0

\* formatted_data['scores'].
formatted_scores(results) ==
    LET sbt == scores_by_type(results)
        avg == avg_scores(sbt)
    IN  [overall         |-> overall_score(sbt),
         technical       |-> RoundTie(avg["technical"].num, avg["technical"].den),
         scenario        |-> RoundTie(avg["scenario"].num, avg["scenario"].den),
         behavioral      |-> RoundTie(avg["behavioral"].num, avg["behavioral"].den),
         problem_solving |-> RoundTie(avg["problem_solving"].num, avg["problem_solving"].den)]

ZeroScores ==
    [overall |-> 0, technical |-> 0, scenario |-> 0, behavioral |-> 0, problem_solving |-> 0]

NoReport ==
    [returned |-> FALSE, raised |-> FALSE, narrative |-> "none", recommendation |-> "",
     scores |-> ZeroScores, completion_rate |-> [n |-> 0, d |-> 1]]

\* The return of the try block: the narrative service's JSON object with
\* 'scores' and 'completion_rate' overwritten by the local values.
assessment(results, outcome) ==
    [returned |-> TRUE, raised |-> FALSE, narrative |-> "service",
     recommendation |-> outcome.recommendation,
     scores |-> formatted_scores(results),
     completion_rate |-> completion_rate(results)]

\* The return of the except block: it first resets completion_rate to 0 and
\* formatted_data['scores'] to zeros, then builds the placeholder report.
fallback_report(results) ==
    [returned |-> TRUE, raised |-> FALSE, narrative |-> "placeholder",
     recommendation |-> "Unable to determine",
     scores |-> ZeroScores,
     completion_rate |-> [n |-> 0, d |-> 1]]

\* generate_final_report(interview_results) when the narrative call ends in
\* `outcome`: an API error, a content json.loads rejects, and a JSON value
\* that is no object (item assignment raises TypeError) all reach the except
\* block.
generate_final_report(results, outcome) ==
    IF outcome.kind = "object"
    THEN assessment(results, outcome)
    ELSE fallback_report(results)

-----------------------------------------------------------------------------
(* InterviewEngine.evaluate_answer (src/interview_engine_new.py) *)

score_fields ==
    <<"score", "technical_accuracy", "clarity_of_communication", "relevance",
      "demonstrated_expertise">>
ScoreFieldSet == {score_fields[i] : i \in 1..Len(score_fields)}

\* What the JSON of the grading service can hold under a score field:
\*   absent  the key is missing            null    JSON null (None)
\*   text    a string float() rejects       number  a number, v in hundredths
\*   nan     the constant NaN               huge    an integer too large for a double
Raw(kind, v) == [kind |-> kind, v |-> v]
RawNumbers == {-300, 725, 1500}
RawValues ==
    {Raw("absent", 0), Raw("null", 0), Raw("text", 0), Raw("nan", 0), Raw("huge", 0)}
      \cup {Raw("number", v) : v \in RawNumbers}

\* float(x) raises ValueError or TypeError: the inner except sets 5.0.
InnerCaught(raw) == raw.kind \in {"null", "text"}
\* float(x) raises OverflowError: no inner except catches it.
Escapes(raw) == raw.kind = "huge"

\* max(0, min(10, x)), in hundredths.
clamp(v) == IF v > 1000 THEN 1000 ELSE IF v < 0 THEN 0 ELSE v

\* The value a score field ends with, in tenths, when nothing escapes: a
\* missing key was given the default 5 by the required_fields loop; min(10, nan)
\* is 10 because nan < 10 is false.
score_value(raw) ==
    CASE raw.kind = "absent" -> 50
      [] InnerCaught(raw)    -> 50
      [] raw.kind = "nan"    -> 100
      [] OTHER               -> Round1(clamp(raw.v), 10)

NoEvaluation ==
    [returned |-> FALSE, raised |-> FALSE, fallback |-> FALSE,
     scores |-> [f \in ScoreFieldSet |-> 0],
     strengths |-> "none", weaknesses |-> "none", feedback |-> "none"]

\* The return of the outer except block.
fallback_evaluation ==
    [returned |-> TRUE, raised |-> FALSE, fallback |-> TRUE,
     scores |-> [f \in ScoreFieldSet |-> 50],
     strengths |-> "unable", weaknesses |-> "unable", feedback |-> "error"]

\* An evaluate_answer without the outer except block: the exception of the
\* grading call propagates.  What evaluate_answer is compared with.
evaluate_answer_raising(out) ==
    [NoEvaluation EXCEPT !.raised = TRUE]

\* evaluate_answer when the grading call ends in `out`.  An API error, a content
\* json.loads rejects and a JSON value that is no object raise inside the try
\* block, and so does a score float() cannot hold.
evaluate_answer(out) ==
    IF out.kind # "object" \/ \E f \in ScoreFieldSet : Escapes(out.scores[f])
    THEN fallback_evaluation
    ELSE [returned |-> TRUE, raised |-> FALSE, fallback |-> FALSE,
          scores |-> [f \in ScoreFieldSet |-> score_value(out.scores[f])],
          strengths |-> IF out.has_strengths THEN "service" ELSE "empty",
          weaknesses |-> IF out.has_weaknesses THEN "service" ELSE "empty",
          feedback |-> IF out.has_feedback THEN "service" ELSE "placeholder"]

-----------------------------------------------------------------------------
(* The answer store (src/database_methods.py, src/database_update.py) *)

\* 'type' is whatever key the generation service used: one of the four
\* categories or another word.
QuestionTypes == CategorySet \cup {"other"}

\* The position of a type in the order the lists are grouped by.
TypeIndex(t) ==
    CASE t = "technical"       -> 1
      [] t = "scenario"        -> 2
      [] t = "behavioral"      -> 3
      [] t = "problem_solving" -> 4
      [] OTHER                 -> 5

\* Lists of questions are enumerated grouped by type: the setup assigns
\* display_order type by type, and the store returns the questions in that
\* order.  The lists enumerated have the types in the order of the categories;
\* the flow (SpecFlow) stores them in the order of the generation service.
GroupedByType(s) ==
    \A i \in 1..(Len(s) - 1) : TypeIndex(s[i].type) <= TypeIndex(s[i + 1].type)

\* The question lists an interview is stored with.
QuestionLists ==
    {s \in UNION {[1..k -> [type : QuestionTypes]] : k \in 1..MaxQuestions} :
        GroupedByType(s)}

\* answer_data of a submitted response (its evaluation gave `score`) and of a
\* skipped question ('skipped': True, evaluation score 0, response_time 0).
SubmitData(score) == [skipped |-> FALSE, score |-> score, response_time |-> 1]

\* A skip that is graded and timed like a response.  What SkipData is compared
\* with.
SkipDataGraded == [skipped |-> TRUE, score |-> 50, response_time |-> 1]

SkipData == [skipped |-> TRUE, score |-> 0, response_time |-> 0]

\* The scores the store is given by submitted responses, in tenths.
StoreScores == {80}
AnswerData == {SkipData} \cup {SubmitData(v) : v \in StoreScores}

\* A row of interview_answers.
AnswerRow(question_id, data) ==
    [question_id |-> question_id, skipped |-> data.skipped, score |-> data.score,
     response_time |-> data.response_time]

HasAnswer(rows, question_id) == \E i \in 1..Len(rows) : rows[i].question_id = question_id

\* interview_answers.question_id REFERENCES interview_questions_new(id): the
\* INSERT fails for an id that is no question.  The table has no UNIQUE
\* constraint on question_id.
ForeignKeyHolds(qs, question_id) == question_id \in 1..Len(qs)

NoSave ==
    [called |-> FALSE, question_id |-> 0, answered_before |-> FALSE, in_session |-> FALSE,
     returned |-> "none", raised |-> FALSE, stored |-> FALSE]

\* save_interview_answer(question_id, answer_data): one INSERT.  When the
\* query raises (db = "error": the connection fails, or the table lacks the
\* column is_skipped the INSERT names, which the CREATE TABLE of
\* src/database_update.py does not create; or the foreign key is violated) the
\* except block logs and returns None.  Nothing is raised.
save_interview_answer(rows, qs, question_id, data, db) ==
    IF db = "ok" /\ ForeignKeyHolds(qs, question_id)
    THEN [rows |-> Append(rows, AnswerRow(question_id, data)), returned |-> "id"]
    ELSE [rows |-> rows, returned |-> "None"]

-----------------------------------------------------------------------------
(* InterviewEngine.generate_questions (src/interview_engine_new.py) *)

\* The range of the "Number of Questions" slider of the setup page.
MinTarget == 5
MaxTarget == 40

\* Most keys of the JSON object of the generation service.
MaxKeys == 2

\* A quota with shares only: problem_solving gets floor(0.1 N) and not the
\* remainder.  What quotas is compared with.
quotas_by_share(n) ==
    [technical |-> (4 * n) \div 10, scenario |-> (3 * n) \div 10,
     behavioral |-> (2 * n) \div 10, problem_solving |-> n \div 10]

\* technical_count, scenario_count, behavioral_count, problem_solving_count:
\* int(num_questions * 0.4) and so on truncate the float product, which for the
\* counts modelled is floor(4 N / 10); problem_solving is the remainder.
quotas(n) ==
    LET technical_count == (4 * n) \div 10
        scenario_count == (3 * n) \div 10
        behavioral_count == (2 * n) \div 10
    IN  [technical |-> technical_count, scenario |-> scenario_count,
         behavioral |-> behavioral_count,
         problem_solving |-> n - technical_count - scenario_count - behavioral_count]

\* One key of the JSON object of the generation service and the value under it:
\*   list  a list of n question objects
\*   null  a value without a length (None, a number): len() raises TypeError
\*   text  a value with a length that is no list of question objects (a string,
\*         a mapping, a list of strings), of length n
Entry(key, shape, n) == [key |-> key, shape |-> shape, n |-> n]

EmptyList(key) == Entry(key, "list", 0)

\* The values the service can put under a key.
EntryValues ==
    {[shape |-> "list", n |-> n] : n \in 0..MaxQuestions}
      \cup {[shape |-> "null", n |-> 0], [shape |-> "text", n |-> 1]}

\* The keys of a JSON object are distinct and come in the order the service
\* wrote them.
DistinctKeys(entries) ==
    \A i, j \in 1..Len(entries) : i # j => entries[i].key # entries[j].key

GenEntries ==
    {e \in UNION {[1..k -> [key : QuestionTypes, shape : {"list", "null", "text"},
                            n : 0..MaxQuestions]] : k \in 0..MaxKeys} :
        /\ DistinctKeys(e)
        /\ \A i \in 1..Len(e) : [shape |-> e[i].shape, n |-> e[i].n] \in EntryValues}

\* What the generation call can end in: the call raised; the content is no
\* JSON; the JSON is a list, string, number or null; the JSON is an object.
GenFailureKinds == {"api_error", "unparsable", "not_object"}

GenOutputs ==
    [kind : GenFailureKinds, entries : {<<>>}] \cup [kind : {"object"}, entries : GenEntries]

HasKey(entries, key) == \E i \in 1..Len(entries) : entries[i].key = key

\* `if category not in result: result[category] = []`: a missing category is
\* added after the keys of the service, in the order of `categories`.
with_categories(entries) ==
    LET missing == SelectSeq(Categories, LAMBDA c : ~HasKey(entries, c))
    IN  entries \o [i \in 1..Len(missing) |-> EmptyList(missing[i])]

\* sum(len(result[cat]) for cat in categories) raises TypeError when the value
\* under one of the four categories has no length.
Unmeasurable(result) ==
    \E i \in 1..Len(result) : result[i].key \in CategorySet /\ result[i].shape = "null"

\* The return of the except block: the four categories, each an empty list.
fallback_questions == [i \in 1..Len(Categories) |-> EmptyList(Categories[i])]

NoGenerated ==
    [returned |-> FALSE, raised |-> FALSE, fallback |-> FALSE, result |-> <<>>,
     quotas |-> quotas(0)]

\* generate_questions(num_questions = n) when the generation call ends in
\* `out`.  The quotas only enter the prompt.  Every exception of the try block
\* reaches the except block; a JSON object is returned as the service wrote it,
\* with the missing categories added.
generate_questions(n, out) ==
    IF out.kind # "object" \/ Unmeasurable(with_categories(out.entries))
    THEN [returned |-> TRUE, raised |-> FALSE, fallback |-> TRUE,
          result |-> fallback_questions, quotas |-> quotas(n)]
    ELSE [returned |-> TRUE, raised |-> FALSE, fallback |-> FALSE,
          result |-> with_categories(out.entries), quotas |-> quotas(n)]

-----------------------------------------------------------------------------
(* The interview flow: st.session_state and the pages of src/interview_ui.py, *)
(* the tables interviews_new and interview_questions_new                     *)

\* Most rows of interviews_new, and most runs of generate_final_report.
MaxInterviews == 2
MaxReports == 2

\* The keys of st.session_state that show_interviews reads; 0 stands for a
\* current_interview_id that is not set.
NoSession ==
    [current_interview_id |-> 0, interview_setup_complete |-> FALSE,
     interview_complete |-> FALSE, view_history |-> FALSE]

\* A page that shows the completion page as soon as the setup is complete.
\* What view is compared with.
view_without_click(s) ==
    IF s.view_history THEN "history"
    ELSE IF s.interview_setup_complete THEN "complete"
    ELSE "setup"

\* show_interviews: the page a run of the script shows.
view(s) ==
    IF s.view_history THEN "history"
    ELSE IF s.interview_complete THEN "complete"
    ELSE IF s.interview_setup_complete THEN "interview"
    ELSE "setup"

\* A row of interviews_new as create_new_interview inserts it.
NewInterview == [status |-> "in_progress", report_data |-> NoReport]

\* create_new_interview: one INSERT; the id of the new row, or None (0) when
\* the query raises.
create_new_interview(rows, db) ==
    IF db = "ok"
    THEN [rows |-> Append(rows, NewInterview), returned |-> Len(rows) + 1]
    ELSE [rows |-> rows, returned |-> 0]

\* get_in_progress_interviews: the ids of the rows with status 'in_progress'.
get_in_progress_interviews(rows) ==
    {i \in 1..Len(rows) : rows[i].status = "in_progress"}

\* get_completed_interviews_new: the ids of the rows with status 'completed'.
get_completed_interviews_new(rows) ==
    {i \in 1..Len(rows) : rows[i].status = "completed"}

\* The loop of the setup handler over questions_by_type.items(): one question
\* of type q_type for every element of the list under q_type, key after key in
\* the order of the mapping.
RECURSIVE all_questions(_)
all_questions(result) ==
    IF result = <<>> THEN <<>>
    ELSE [i \in 1..Head(result).n |-> Head(result).key] \o all_questions(Tail(result))

\* question.get raises AttributeError on an element that is no mapping, and a
\* value without a length cannot be iterated: the handler's except block shows
\* the error.
SetupRaises(result) ==
    \E i \in 1..Len(result) : result[i].shape # "list"

\* save_interview_questions_new(interview_id, {"questions": types}): False for
\* an empty list; else one INSERT per question, each committed on its own, with
\* display_order i + 1 for index i.  The INSERT number fail_at raises (0: none
\* does): the except block returns False and the earlier rows stay.
save_interview_questions_new(rows, interview_id, types, fail_at) ==
    IF types = <<>>
    THEN [rows |-> rows, returned |-> FALSE]
    ELSE LET k == IF fail_at \in 1..Len(types) THEN fail_at - 1 ELSE Len(types)
         IN  [rows |-> rows \o [i \in 1..k |->
                          [type |-> types[i], interview_id |-> interview_id,
                           display_order |-> i]],
              returned |-> k = Len(types)]

\* The ids of the questions of an interview, ORDER BY display_order.  Ids are
\* given in insertion order, which is the display order within an interview.
QuestionIds(qs, interview_id) ==
    SelectSeq([i \in 1..Len(qs) |-> i], LAMBDA i : qs[i].interview_id = interview_id)

\* The rows of the LEFT JOIN for the questions `ids`: one item per answer of a
\* question, one item without answer for a question that has none.
RECURSIVE JoinAnswers(_, _, _)
JoinAnswers(qs, rows, ids) ==
    IF ids = <<>> THEN <<>>
    ELSE LET q == Head(ids)
             a == SelectSeq(rows, LAMBDA r : r.question_id = q)
             items ==
                 IF a = <<>>
                 THEN <<[id |-> q, type |-> qs[q].type, answer |-> NoAnswer]>>
                 ELSE [i \in 1..Len(a) |->
                          [id |-> q, type |-> qs[q].type,
                           answer |-> [present |-> TRUE, skipped |-> a[i].skipped,
                                       score |-> a[i].score]]]
         IN  items \o JoinAnswers(qs, rows, Tail(ids))

\* get_interview_answers(interview_id); [] when the query raises.
get_interview_answers(qs, rows, interview_id, db) ==
    IF db = "ok" THEN JoinAnswers(qs, rows, QuestionIds(qs, interview_id)) ELSE <<>>

\* A page that offers the last question without an answer.  What
\* current_question is compared with.
current_question_none(joined) == 0

current_question_last(joined) ==
    IF \E i \in 1..Len(joined) : ~Answered(joined[i])
    THEN joined[CHOOSE i \in 1..Len(joined) :
                    /\ ~Answered(joined[i])
                    /\ \A j \in (i + 1)..Len(joined) : Answered(joined[j])].id
    ELSE 0

\* interview_interface: the id of the first item without an answer, 0 when
\* every item has one (current_question is None).
current_question(joined) ==
    IF \E i \in 1..Len(joined) : ~Answered(joined[i])
    THEN joined[CHOOSE i \in 1..Len(joined) :
                    /\ ~Answered(joined[i])
                    /\ \A j \in 1..(i - 1) : Answered(joined[j])].id
    ELSE 0

\* complete_interview (UI): the items with an answer, as interview_results.
ui_interview_results(joined) ==
    LET kept == SelectSeq(joined, Answered)
    IN  [i \in 1..Len(kept) |-> [type |-> kept[i].type, answer |-> kept[i].answer]]

\* complete_interview (UI): len(interview_results) / len(questions_with_answers),
\* 0 for an empty list.
\* The progress shown by interview_interface: the items that have an answer,
\* and the items, of what get_interview_answers returned.
progress_of_graded(joined) ==
    [answered_questions |->
        Len(SelectSeq(joined, LAMBDA q : Answered(q) /\ ~q.answer.skipped)),
     total_questions |-> Len(joined)]

progress(joined) ==
    [answered_questions |-> Len(SelectSeq(joined, Answered)),
     total_questions |-> Len(joined)]

ui_completion_rate(joined) ==
    IF joined # <<>>
    THEN [n |-> Len(SelectSeq(joined, Answered)), d |-> Len(joined)]
    ELSE [n |-> 0, d |-> 1]

\* A variant of complete_interview whose UPDATE writes 'in_progress' on a row
\* that is already 'completed': what the status rule excludes.
complete_interview_reopening(rows, interview_id, report_data, db) ==
    IF db = "ok" /\ interview_id \in 1..Len(rows)
    THEN [rows |-> [rows EXCEPT ![interview_id] =
                       [status |-> IF rows[interview_id].status = "completed"
                                   THEN "in_progress" ELSE "completed",
                        report_data |-> report_data]],
          returned |-> TRUE]
    ELSE [rows |-> rows, returned |-> db = "ok"]

\* complete_interview (store): the UPDATE that sets status 'completed' and
\* report_data; False, with the row as it was, when a query raises.
complete_interview(rows, interview_id, report_data, db) ==
    IF db = "ok" /\ interview_id \in 1..Len(rows)
    THEN [rows |-> [rows EXCEPT ![interview_id] =
                       [status |-> "completed", report_data |-> report_data]],
          returned |-> TRUE]
    ELSE [rows |-> rows, returned |-> db = "ok"]

\* How the driver hands back the report_data column of interviews_new: as the
\* stored text, or as the object it already decoded from a JSONB column.
ReportReads == {"text", "object"}

\* get_interview_details: None when the query fails or finds no row; the
\* report_data of the result is what json.loads makes of the column, None when
\* the column is NULL or json.loads raises (it raises on a decoded object).
get_interview_details(rows, interview_id, db, column) ==
    IF db = "ok" /\ interview_id \in 1..Len(rows)
    THEN [found |-> TRUE, status |-> rows[interview_id].status,
          report_data |-> IF column = "text" THEN rows[interview_id].report_data
                          ELSE NoReport]
    ELSE [found |-> FALSE, status |-> "", report_data |-> NoReport]

\* The test of complete_interview (UI) that an interview is only displayed.
already_completed(interview) ==
    interview.status = "completed" /\ interview.report_data # NoReport

NoSetup ==
    [called |-> FALSE, interview_id |-> 0, generated_empty |-> FALSE, stored |-> 0,
     advanced |-> FALSE]

NoOp ==
    [op |-> "none", interview_id |-> 0, question_id |-> 0, scorer_called |-> FALSE,
     saved |-> FALSE, added |-> <<>>]

-----------------------------------------------------------------------------
(* Specification SpecEval: evaluate_answer on every output of the grading call *)

AbsentScores == [f \in ScoreFieldSet |-> Raw("absent", 0)]

FailedOutput(kind) ==
    [kind |-> kind, scores |-> AbsentScores,
     has_strengths |-> FALSE, has_weaknesses |-> FALSE, has_feedback |-> FALSE]

\* The call raised; the content is no JSON; the JSON is a list, string or number.
FailureKinds == {"api_error", "unparsable", "not_object"}

ScorerOutputs ==
    {FailedOutput(k) : k \in FailureKinds}
      \cup [kind : {"object"}, scores : [ScoreFieldSet -> RawValues],
            has_strengths : BOOLEAN, has_weaknesses : BOOLEAN, has_feedback : BOOLEAN]

NoOutput == FailedOutput("none")

ReportIdle ==
    /\ interview_results = <<>>
    /\ final_report = NoReport
    /\ narrative_calls = 0
    /\ float_tie = "down"
    /\ first_report = NoReport

EvalIdle ==
    /\ scorer_output = NoOutput
    /\ evaluation = NoEvaluation

StoreIdle ==
    /\ questions = <<>>
    /\ answers = <<>>
    /\ last_save = NoSave

GenIdle ==
    /\ num_questions = 0
    /\ generation = [kind |-> "none", entries |-> <<>>]
    /\ generated = NoGenerated

FlowIdle ==
    /\ session = NoSession
    /\ interviews = <<>>
    /\ last_setup = NoSetup
    /\ last_op = NoOp

\* The browser sessions of the two-session study, and the record of the
\* external call a session's script run is blocked in.
UISessions == {"a", "b"}

NoCall == [kind |-> "none", interview_id |-> 0, question_id |-> 0]

\* The two engines, their operations that call the service (conduct_interview
\* is the legacy engine's evaluation of an answer), and what can come of a
\* call: a JSON object, content that is not a JSON object, an API error, or
\* no answer until the client's timeout.
Engines == {"legacy", "new"}

EngineOps == {"generate_questions", "evaluate", "generate_final_report"}

ServiceOutcomes == {"object", "malformed", "api_error", "timeout"}

NoEngineCall == [op |-> "none", state |-> "idle", service |-> "none", outcome |-> "none"]

\* The client of both engines is built by OpenAI(api_key=...), without a
\* timeout argument: requests are timed out by the client's default.
client_without_timeout == FALSE

client_times_out == TRUE

\* The kind of value an engine method ends with.  The new engine parses the
\* content and returns the object, and returns its fallback on any exception.
\* The legacy engine logs and raises again on any exception; its
\* generate_questions returns the parsed object, its conduct_interview and
\* generate_final_report return json.dumps of the content, a string.
engine_outcome(engine, op, service) ==
    IF engine = "new"
    THEN IF service = "object" THEN "object" ELSE "fallback"
    ELSE IF service \in {"api_error", "timeout"} THEN "raised"
    ELSE IF op = "generate_questions"
    THEN IF service = "object" THEN "object" ELSE "raised"
    ELSE "text"

\* What generate_final_report writes into the prompt of the narrative call:
\* "The candidate completed {answered_questions} out of {total_questions}
\* questions", counted on the list it was given.
NoPrompt == [written |-> FALSE, answered_questions |-> 0, total_questions |-> 0]

prompt_counts(results) ==
    [written |-> TRUE,
     answered_questions |-> Len(SelectSeq(results, Answered)),
     total_questions |-> Len(results)]

\* execute_query: the default of its parameter max_retries.
max_retries == 3

NoQuery ==
    [pc |-> "idle", fetch |-> FALSE, retries |-> 0, attempts |-> 0, errors |-> <<>>,
     outcome |-> "none", raised_error |-> "none", committed |-> FALSE,
     conn_bound |-> FALSE, rollback_tried |-> FALSE]

\* What one pass through the body of the loop of execute_query can come to:
\* the query ran and gave rows or none, or an exception was raised on the
\* way (by get_connection, cursor.execute, fetchall or commit).
AttemptOutcomes ==
    {"rows", "empty", "OperationalError", "InterfaceError", "ProgrammingError",
     "IntegrityError"}

\* conn.closed of the connection that get_connection yields: the connection
\* has just answered SELECT 1 or has just been opened, so it is not closed and
\* the branch that reinitialises the pool and continues is not taken.
ConnClosed == {FALSE}

\* The errors after which execute_query tries again.
retried_always(error) == TRUE

retried(error) == error \in {"OperationalError", "InterfaceError"}

ExtraIdle ==
    /\ sessions = [s \in UISessions |-> NoSession]
    /\ in_flight = [s \in UISessions |-> NoCall]
    /\ engine_calls = [e \in Engines |-> NoEngineCall]
    /\ query = NoQuery
    /\ narrative_prompt = NoPrompt

InitEval ==
    /\ scorer_output \in ScorerOutputs
    /\ evaluation = NoEvaluation
    /\ ReportIdle
    /\ StoreIdle
    /\ GenIdle
    /\ FlowIdle
    /\ ExtraIdle

\* The grading call failed and evaluate_answer returns.
EvaluateFailed ==
    /\ ~evaluation.returned /\ ~evaluation.raised
    /\ scorer_output.kind \in FailureKinds
    /\ evaluation' = evaluate_answer(scorer_output)
    /\ UNCHANGED <<scorer_output, reportVars, storeVars, first_report, genVars, flowVars,
                   extraVars>>

\* The grading call answered with a JSON object and evaluate_answer returns.
EvaluateObject ==
    /\ ~evaluation.returned /\ ~evaluation.raised
    /\ scorer_output.kind = "object"
    /\ evaluation' = evaluate_answer(scorer_output)
    /\ UNCHANGED <<scorer_output, reportVars, storeVars, first_report, genVars, flowVars,
                   extraVars>>

NextEval == EvaluateFailed \/ EvaluateObject

SpecEval == InitEval /\ [][NextEval]_vars

-----------------------------------------------------------------------------
(* Specification SpecReport: generate_final_report on every bounded list of  *)
(* results and every outcome of the narrative call                           *)

\* Scores of the stored answers the lists are built from, in tenths.
ResultScores == {40, 60, 80}

\* The answer of a skipped question as the store returns it: the placeholder
\* text, score 0, skipped true.
SkippedAnswer == [present |-> TRUE, skipped |-> TRUE, score |-> 0]

ScoredAnswer(v) == [present |-> TRUE, skipped |-> FALSE, score |-> v]

ResultAnswers == {NoAnswer, SkippedAnswer} \cup {ScoredAnswer(v) : v \in ResultScores}

ResultItems == [type : QuestionTypes, answer : ResultAnswers]

ResultLists ==
    {s \in UNION {[1..k -> ResultItems] : k \in 0..MaxResults} : GroupedByType(s)}

\* What the narrative call can end in.  An object carries the recommendation
\* the service proposes ("" when the key is missing).
Proposals == {"Hire", "Consider", "Do Not Hire", "Consider with Reservations", ""}

NarrativeFailures ==
    [kind : {"api_error", "unparsable", "not_object"}, recommendation : {""}]

NarrativeObjects == [kind : {"object"}, recommendation : Proposals]

InitReport ==
    /\ interview_results \in ResultLists
    /\ final_report = NoReport
    /\ narrative_calls = 0
    /\ float_tie \in {"down", "up"}
    /\ first_report = NoReport
    /\ EvalIdle
    /\ StoreIdle
    /\ GenIdle
    /\ FlowIdle
    /\ ExtraIdle

\* generate_final_report runs: it always makes the narrative call, which here
\* answers with a JSON object.
ReportNarrativeAnswers ==
    /\ ~final_report.returned
    /\ \E outcome \in NarrativeObjects :
          final_report' = generate_final_report(interview_results, outcome)
    /\ narrative_calls' = narrative_calls + 1
    /\ UNCHANGED <<interview_results, float_tie, evalVars, storeVars, first_report,
                   genVars, flowVars, extraVars>>

\* generate_final_report runs and the narrative call fails.
ReportNarrativeFails ==
    /\ ~final_report.returned
    /\ \E outcome \in NarrativeFailures :
          final_report' = generate_final_report(interview_results, outcome)
    /\ narrative_calls' = narrative_calls + 1
    /\ UNCHANGED <<interview_results, float_tie, evalVars, storeVars, first_report,
                   genVars, flowVars, extraVars>>

NextReport == ReportNarrativeAnswers \/ ReportNarrativeFails

SpecReport == InitReport /\ [][NextReport]_vars

-----------------------------------------------------------------------------
(* Specification SpecStore: save_interview_answer called by any caller, for  *)
(* any question id, on an interview whose questions are stored               *)

InitStore ==
    /\ questions \in QuestionLists
    /\ answers = <<>>
    /\ last_save = NoSave
    /\ EvalIdle
    /\ ReportIdle
    /\ GenIdle
    /\ FlowIdle
    /\ ExtraIdle

\* One call of save_interview_answer and what it did.
Save(question_id, data, db) ==
    LET res == save_interview_answer(answers, questions, question_id, data, db)
    IN  /\ Len(answers) < MaxAnswers
        /\ answers' = res.rows
        /\ last_save' =
              [called |-> TRUE, question_id |-> question_id,
               answered_before |-> HasAnswer(answers, question_id),
               in_session |-> question_id \in 1..Len(questions),
               returned |-> res.returned, raised |-> FALSE,
               stored |-> res.rows # answers]
        /\ UNCHANGED <<questions, evalVars, reportVars, first_report, genVars, flowVars, extraVars>>

\* The ids a caller may pass: every question of the interview and one id that
\* is no question.
CallerIds == 1..(Len(questions) + 1)

DbOutcomes == {"ok", "error"}

\* A response is submitted for a question: its evaluation is saved.
SubmitAnswer ==
    \E question_id \in CallerIds, v \in StoreScores, db \in DbOutcomes :
        Save(question_id, SubmitData(v), db)

\* A question is skipped: the skip placeholder is saved.
SkipQuestion ==
    \E question_id \in CallerIds, db \in DbOutcomes :
        Save(question_id, SkipData, db)

NextStore == SubmitAnswer \/ SkipQuestion

SpecStore == InitStore /\ [][NextStore]_vars

-----------------------------------------------------------------------------
(* Specification SpecGenerate: generate_questions for every target count of  *)
(* the slider's range and every output of the generation call                *)

InitGenerate ==
    /\ num_questions \in MinTarget..MaxTarget
    /\ generation \in GenOutputs
    /\ generated = NoGenerated
    /\ EvalIdle
    /\ ReportIdle
    /\ StoreIdle
    /\ FlowIdle
    /\ ExtraIdle

\* The generation call failed and generate_questions returns.
GenerateFailed ==
    /\ ~generated.returned /\ ~generated.raised
    /\ generation.kind \in GenFailureKinds
    /\ generated' = generate_questions(num_questions, generation)
    /\ UNCHANGED <<num_questions, generation, evalVars, reportVars, storeVars,
                   first_report, flowVars, extraVars>>

\* The generation call answered with a JSON object and generate_questions
\* returns.
GenerateObject ==
    /\ ~generated.returned /\ ~generated.raised
    /\ generation.kind = "object"
    /\ generated' = generate_questions(num_questions, generation)
    /\ UNCHANGED <<num_questions, generation, evalVars, reportVars, storeVars,
                   first_report, flowVars, extraVars>>

NextGenerate == GenerateFailed \/ GenerateObject

SpecGenerate == InitGenerate /\ [][NextGenerate]_vars

-----------------------------------------------------------------------------
(* Specification SpecFlow: one browser session from the setup page through   *)
(* the interview interface to the completion page, on a database whose       *)
(* queries can fail                                                          *)

\* The outputs of the generation call the flow is run on: a failed call, and
\* the JSON objects with keys among FlowKeys that hold at most MaxQuestions
\* questions in non-empty lists, or one malformed value under "technical".
FlowKeys == {"technical", "scenario", "other"}

FlowLists ==
    {e \in UNION {[1..k -> [key : FlowKeys, shape : {"list"}, n : 1..MaxQuestions]] :
                     k \in 0..MaxKeys} :
        DistinctKeys(e) /\ Len(all_questions(e)) <= MaxQuestions}

FlowOutputs ==
    {[kind |-> "api_error", entries |-> <<>>]}
      \cup {[kind |-> "object", entries |-> e] :
               e \in FlowLists \cup {<<Entry("technical", "null", 0)>>,
                                     <<Entry("technical", "text", 1)>>}}

\* The outcomes of the narrative call the flow is run on.
FlowNarratives ==
    {[kind |-> "object", recommendation |-> "Hire"],
     [kind |-> "api_error", recommendation |-> ""]}

\* The rounding of ties is fixed in the flow: what the flow keeps of a report
\* is its stored row, and the rounded scores are studied under SpecReport.
InitFlow ==
    /\ session = NoSession
    /\ interviews = <<>>
    /\ questions = <<>>
    /\ answers = <<>>
    /\ last_save = NoSave
    /\ last_setup = NoSetup
    /\ last_op = NoOp
    /\ interview_results = <<>>
    /\ final_report = NoReport
    /\ first_report = NoReport
    /\ narrative_calls = 0
    /\ float_tie = "down"
    /\ EvalIdle
    /\ GenIdle
    /\ ExtraIdle

\* The "Generate Interview Questions" handler of setup_interview_page, with
\* the form filled in (the target count only enters the prompt of the
\* generation call): create_new_interview, generate_questions, the loop that
\* builds all_questions, save_interview_questions_new, and the session keys
\* set on success.  Every early return leaves the row of interviews_new that
\* create_new_interview inserted.
SetupInterview ==
    /\ view(session) = "setup"
    /\ Len(interviews) < MaxInterviews
    /\ \E out \in FlowOutputs, db \in DbOutcomes, fail_at \in 0..MaxQuestions :
          LET created == create_new_interview(interviews, db)
              id == created.returned
              gen == generate_questions(MinTarget, out)
              types == all_questions(gen.result)
              saved == save_interview_questions_new(questions, id, types, fail_at)
          IN  /\ Len(questions) + Len(types) <= MaxQuestions
              /\ fail_at <= Len(types)
              /\ interviews' = created.rows
              /\ IF id = 0
                 THEN /\ last_setup' = [NoSetup EXCEPT !.called = TRUE]
                      /\ UNCHANGED <<questions, session>>
                 ELSE IF SetupRaises(gen.result)
                 THEN /\ last_setup' =
                            [called |-> TRUE, interview_id |-> id, generated_empty |-> FALSE,
                             stored |-> 0, advanced |-> FALSE]
                      /\ UNCHANGED <<questions, session>>
                 ELSE /\ questions' = saved.rows
                      /\ session' =
                            IF saved.returned
                            THEN [session EXCEPT !.current_interview_id = id,
                                                 !.interview_setup_complete = TRUE]
                            ELSE session
                      /\ last_setup' =
                            [called |-> TRUE, interview_id |-> id,
                             generated_empty |-> types = <<>>,
                             stored |-> Len(saved.rows) - Len(questions),
                             advanced |-> saved.returned]
    /\ UNCHANGED <<answers, last_save, last_op, evalVars, reportVars, first_report,
                   genVars, extraVars>>

\* What interview_interface reads at the start of a run, when both queries
\* answer: the items of the current interview and its current question.  When
\* a query fails the page shows an error and no answer button.
Joined == get_interview_answers(questions, answers, session.current_interview_id, "ok")

InterviewShown ==
    /\ view(session) = "interview"
    /\ session.current_interview_id \in 1..Len(interviews)
    /\ Joined # <<>>

\* One handler of the interview interface saving answer_data for the current
\* question.
SaveCurrent(op, data, scorer_called, db) ==
    LET q == current_question(Joined)
        res == save_interview_answer(answers, questions, q, data, db)
    IN  /\ InterviewShown
        /\ q # 0
        /\ Len(answers) < MaxAnswers
        /\ answers' = res.rows
        /\ last_op' =
              [op |-> op, interview_id |-> session.current_interview_id, question_id |-> q,
               scorer_called |-> scorer_called, saved |-> res.returned = "id",
               added |-> SubSeq(res.rows, Len(answers) + 1, Len(res.rows))]
        /\ UNCHANGED <<session, interviews, questions, last_save, last_setup, evalVars,
                       reportVars, first_report, genVars, extraVars>>

\* "Submit Response" with a response typed in: evaluate_answer is called (it
\* always returns an evaluation), then save_interview_answer, whose return is
\* not looked at.
SubmitResponse ==
    \E v \in StoreScores, db \in DbOutcomes :
        SaveCurrent("submit", SubmitData(v), TRUE, db)

\* "Next Question": the skip placeholder is saved; evaluate_answer is not
\* called.
NextQuestion ==
    \E db \in DbOutcomes :
        SaveCurrent("skip", SkipData, FALSE, db)

\* "Return to Setup", which the interview interface offers when a query failed.
ReturnToSetup ==
    /\ view(session) = "interview"
    /\ session' = [session EXCEPT !.interview_setup_complete = FALSE]
    /\ last_op' = [NoOp EXCEPT !.op = "return_to_setup",
                               !.interview_id = session.current_interview_id]
    /\ UNCHANGED <<interviews, questions, answers, last_save, last_setup, evalVars,
                   reportVars, first_report, genVars, extraVars>>

\* "Complete Interview & Generate Report", which the interview interface
\* offers when no item is without an answer.
ClickComplete ==
    /\ InterviewShown
    /\ current_question(Joined) = 0
    /\ session' = [session EXCEPT !.interview_complete = TRUE]
    /\ last_op' = [NoOp EXCEPT !.op = "click_complete",
                               !.interview_id = session.current_interview_id]
    /\ UNCHANGED <<interviews, questions, answers, last_save, last_setup, evalVars,
                   reportVars, first_report, genVars, extraVars>>

\* A run of complete_interview (UI) for which get_interview_details answered.
\* When the interview is read as completed with a report, the stored report is
\* displayed and nothing else is done.  Otherwise (its status is not
\* 'completed', or its report_data was read as None) the answers are read,
\* the report is generated, its completion_rate overwritten, and
\* complete_interview (store) is called.  interview_results and final_report
\* are locals of the page here: what lasts is the stored row.
CompleteInterviewPage ==
    /\ view(session) = "complete"
    /\ session.current_interview_id \in 1..Len(interviews)
    /\ narrative_calls < MaxReports
    /\ \E db_read \in DbOutcomes, db_write \in DbOutcomes,
          outcome \in FlowNarratives, column \in ReportReads :
          LET id == session.current_interview_id
              interview == get_interview_details(interviews, id, "ok", column)
              questions_with_answers == get_interview_answers(questions, answers, id, db_read)
              results == ui_interview_results(questions_with_answers)
              report == generate_final_report(results, outcome)
              stored == [report EXCEPT
                            !.completion_rate = ui_completion_rate(questions_with_answers)]
              done == complete_interview(interviews, id, stored, db_write)
          IN  IF already_completed(interview)
              THEN /\ last_op' = [NoOp EXCEPT !.op = "display", !.interview_id = id]
                   /\ UNCHANGED <<narrative_calls, narrative_prompt, interviews>>
              ELSE /\ narrative_calls' = narrative_calls + 1
                   /\ narrative_prompt' = prompt_counts(results)
                   /\ interviews' = done.rows
                   /\ last_op' = [NoOp EXCEPT !.op = "complete", !.interview_id = id,
                                              !.saved = done.returned]
    /\ UNCHANGED <<session, questions, answers, last_save, last_setup, interview_results,
                   final_report, float_tie, evalVars, first_report, genVars, sessions,
                   in_flight, engine_calls, query>>

NextFlow ==
    \/ SetupInterview
    \/ SubmitResponse
    \/ NextQuestion
    \/ ReturnToSetup
    \/ ClickComplete
    \/ CompleteInterviewPage

SpecFlow == InitFlow /\ [][NextFlow]_vars

-----------------------------------------------------------------------------
(* Specification SpecRerun: generate_final_report run again and again on one *)
(* list of results, each run with its own outcome of the narrative call      *)

\* The lists the report is computed again for.
RerunLists == {s \in ResultLists : Len(s) <= MaxQuestions}

InitRerun ==
    /\ interview_results \in RerunLists
    /\ final_report = NoReport
    /\ first_report = NoReport
    /\ narrative_calls = 0
    /\ float_tie \in {"down", "up"}
    /\ EvalIdle
    /\ StoreIdle
    /\ GenIdle
    /\ FlowIdle
    /\ ExtraIdle

\* The first run; its report is kept in first_report.
FirstReport ==
    /\ narrative_calls = 0
    /\ \E outcome \in NarrativeObjects \cup NarrativeFailures :
          first_report' = generate_final_report(interview_results, outcome)
    /\ narrative_calls' = 1
    /\ UNCHANGED <<interview_results, final_report, float_tie, evalVars, storeVars, genVars,
                   flowVars, extraVars>>

\* A later run on the same list; its report is final_report.
LaterReport ==
    /\ narrative_calls \in 1..(MaxReports - 1)
    /\ \E outcome \in NarrativeObjects \cup NarrativeFailures :
          final_report' = generate_final_report(interview_results, outcome)
    /\ narrative_calls' = narrative_calls + 1
    /\ UNCHANGED <<interview_results, first_report, float_tie, evalVars, storeVars, genVars,
                   flowVars, extraVars>>

NextRerun == FirstReport \/ LaterReport

SpecRerun == InitRerun /\ [][NextRerun]_vars

-----------------------------------------------------------------------------
(* Specification SpecSessions: two browser sessions on one database.  The     *)
(* script runs of one session follow one another; a run that called an       *)
(* external service is blocked until the call ends, and the other session    *)
(* runs meanwhile.  A handler with an external call is two steps: the part   *)
(* before the call and the part after it.                                    *)

\* The outputs of the generation call in the two-session study.
SessionOutputs ==
    {[kind |-> "api_error", entries |-> <<>>]}
      \cup {[kind |-> "object", entries |-> <<Entry("technical", "list", n)>>] :
               n \in 1..MaxQuestions}

\* The outcome of the narrative call in the two-session study.
SessionNarratives == {[kind |-> "object", recommendation |-> "Hire"]}

sessionIdleVars ==
    <<last_save, evalVars, reportVars, first_report, genVars, session, last_setup, last_op,
      engine_calls, query, narrative_prompt>>

InitSessions ==
    /\ sessions = [s \in UISessions |-> NoSession]
    /\ in_flight = [s \in UISessions |-> NoCall]
    /\ engine_calls = [e \in Engines |-> NoEngineCall]
    /\ query = NoQuery
    /\ narrative_prompt = NoPrompt
    /\ questions = <<>>
    /\ answers = <<>>
    /\ last_save = NoSave
    /\ EvalIdle
    /\ ReportIdle
    /\ GenIdle
    /\ FlowIdle

Call(kind, interview_id, question_id) ==
    [kind |-> kind, interview_id |-> interview_id, question_id |-> question_id]

Blocked(s) == in_flight[s] # NoCall

ScoringCalls == {s \in UISessions : in_flight[s].kind = "score"}

\* What interview_interface of session s reads at the start of a run.
JoinedOf(s) ==
    get_interview_answers(questions, answers, sessions[s].current_interview_id, "ok")

InterviewShownTo(s) ==
    /\ ~Blocked(s)
    /\ view(sessions[s]) = "interview"
    /\ sessions[s].current_interview_id \in 1..Len(interviews)
    /\ JoinedOf(s) # <<>>

\* "Generate Interview Questions" up to the generation call:
\* create_new_interview, and the call when the row was inserted.
BeginSetup(s) ==
    /\ ~Blocked(s)
    /\ view(sessions[s]) = "setup"
    /\ Len(interviews) < MaxInterviews
    /\ \E db \in DbOutcomes :
          LET created == create_new_interview(interviews, db)
          IN  /\ interviews' = created.rows
              /\ in_flight' =
                    IF created.returned = 0 THEN in_flight
                    ELSE [in_flight EXCEPT ![s] = Call("generate", created.returned, 0)]
    /\ UNCHANGED <<sessions, questions, answers, sessionIdleVars>>

\* The rest of the handler, once the generation call ended: the questions are
\* saved and the session keys set on success.
EndSetup(s) ==
    /\ in_flight[s].kind = "generate"
    /\ \E out \in SessionOutputs, fail_at \in 0..MaxQuestions :
          LET id == in_flight[s].interview_id
              gen == generate_questions(MinTarget, out)
              types == all_questions(gen.result)
              saved == save_interview_questions_new(questions, id, types, fail_at)
          IN  /\ Len(questions) + Len(types) <= MaxQuestions
              /\ fail_at <= Len(types)
              /\ questions' = IF SetupRaises(gen.result) THEN questions ELSE saved.rows
              /\ sessions' =
                    IF ~SetupRaises(gen.result) /\ saved.returned
                    THEN [sessions EXCEPT ![s].current_interview_id = id,
                                          ![s].interview_setup_complete = TRUE]
                    ELSE sessions
    /\ in_flight' = [in_flight EXCEPT ![s] = NoCall]
    /\ UNCHANGED <<interviews, answers, sessionIdleVars>>

\* "Submit Response" up to the scoring call, inside the spinner.
BeginSubmit(s) ==
    /\ InterviewShownTo(s)
    /\ current_question(JoinedOf(s)) # 0
    /\ Len(answers) + Cardinality(ScoringCalls) < MaxAnswers
    /\ in_flight' = [in_flight EXCEPT ![s] =
                        Call("score", sessions[s].current_interview_id,
                             current_question(JoinedOf(s)))]
    /\ UNCHANGED <<sessions, interviews, questions, answers, sessionIdleVars>>

\* The rest of the handler, once the scoring call ended: save_interview_answer
\* for the question the run had read.
EndSubmit(s) ==
    /\ in_flight[s].kind = "score"
    /\ \E v \in StoreScores, db \in DbOutcomes :
          answers' = save_interview_answer(answers, questions, in_flight[s].question_id,
                                           SubmitData(v), db).rows
    /\ in_flight' = [in_flight EXCEPT ![s] = NoCall]
    /\ UNCHANGED <<sessions, interviews, questions, sessionIdleVars>>

\* "Next Question": no external call.
NextQuestionIn(s) ==
    /\ InterviewShownTo(s)
    /\ current_question(JoinedOf(s)) # 0
    /\ Len(answers) + Cardinality(ScoringCalls) < MaxAnswers
    /\ \E db \in DbOutcomes :
          answers' = save_interview_answer(answers, questions,
                                           current_question(JoinedOf(s)), SkipData, db).rows
    /\ UNCHANGED <<sessions, in_flight, interviews, questions, sessionIdleVars>>

\* "Return to Setup", which the interview interface offers when a query failed.
ReturnToSetupIn(s) ==
    /\ ~Blocked(s)
    /\ view(sessions[s]) = "interview"
    /\ sessions' = [sessions EXCEPT ![s].interview_setup_complete = FALSE]
    /\ UNCHANGED <<in_flight, interviews, questions, answers, sessionIdleVars>>

\* "Complete Interview & Generate Report".
ClickCompleteIn(s) ==
    /\ InterviewShownTo(s)
    /\ current_question(JoinedOf(s)) = 0
    /\ sessions' = [sessions EXCEPT ![s].interview_complete = TRUE]
    /\ UNCHANGED <<in_flight, interviews, questions, answers, sessionIdleVars>>

\* complete_interview (UI) up to the narrative call: the details are read,
\* and the interview is not one that is only displayed.
BeginComplete(s) ==
    /\ ~Blocked(s)
    /\ view(sessions[s]) = "complete"
    /\ \E column \in ReportReads :
          LET interview == get_interview_details(interviews, sessions[s].current_interview_id,
                                                 "ok", column)
          IN  interview.found /\ ~already_completed(interview)
    /\ in_flight' = [in_flight EXCEPT ![s] =
                        Call("report", sessions[s].current_interview_id, 0)]
    /\ UNCHANGED <<sessions, interviews, questions, answers, sessionIdleVars>>

\* The rest of the page, once the narrative call ended: the report is stored.
\* The content of the report is fixed in the two-session study (the answers
\* were read and the service answered): the study is about which calls are in
\* flight, and the report is studied under SpecFlow and SpecReport.
EndComplete(s) ==
    /\ in_flight[s].kind = "report"
    /\ \E db_write \in DbOutcomes, outcome \in SessionNarratives :
          LET id == in_flight[s].interview_id
              questions_with_answers == get_interview_answers(questions, answers, id, "ok")
              report == generate_final_report(ui_interview_results(questions_with_answers),
                                              outcome)
              stored == [report EXCEPT
                            !.completion_rate = ui_completion_rate(questions_with_answers)]
          IN  interviews' = complete_interview(interviews, id, stored, db_write).rows
    /\ in_flight' = [in_flight EXCEPT ![s] = NoCall]
    /\ UNCHANGED <<sessions, questions, answers, sessionIdleVars>>

\* "View Interview History", offered on the setup page: the interview keys are
\* deleted and view_history set.
ViewHistory(s) ==
    /\ ~Blocked(s)
    /\ view(sessions[s]) = "setup"
    /\ sessions' = [sessions EXCEPT ![s] = [NoSession EXCEPT !.view_history = TRUE]]
    /\ UNCHANGED <<in_flight, interviews, questions, answers, sessionIdleVars>>

\* The session keys after "Continue" on an in-progress interview of the
\* history page: view_history is not among the keys the handler sets.
continue_leaving_history(s, selected_id) ==
    [s EXCEPT !.current_interview_id = selected_id, !.interview_setup_complete = TRUE,
              !.interview_complete = FALSE, !.view_history = FALSE]

continue_interview(s, selected_id) ==
    [s EXCEPT !.current_interview_id = selected_id, !.interview_setup_complete = TRUE,
              !.interview_complete = FALSE]

\* The session keys after "View Report" on a completed interview.
view_report(s, selected_id) ==
    [s EXCEPT !.current_interview_id = selected_id, !.interview_setup_complete = TRUE,
              !.interview_complete = TRUE]

Continue(s) ==
    /\ ~Blocked(s)
    /\ view(sessions[s]) = "history"
    /\ \E selected_id \in get_in_progress_interviews(interviews) :
          sessions' = [sessions EXCEPT ![s] = continue_interview(sessions[s], selected_id)]
    /\ UNCHANGED <<in_flight, interviews, questions, answers, sessionIdleVars>>

ViewReport(s) ==
    /\ ~Blocked(s)
    /\ view(sessions[s]) = "history"
    /\ \E selected_id \in get_completed_interviews_new(interviews) :
          sessions' = [sessions EXCEPT ![s] = view_report(sessions[s], selected_id)]
    /\ UNCHANGED <<in_flight, interviews, questions, answers, sessionIdleVars>>

\* "Return to Home" and "Start New Interview" of the history page delete the
\* interview keys and view_history; "Return to Home" of the completion page
\* deletes the interview keys, and view_history is False there.
ReturnHome(s) ==
    /\ ~Blocked(s)
    /\ view(sessions[s]) \in {"history", "complete"}
    /\ sessions' = [sessions EXCEPT ![s] = NoSession]
    /\ UNCHANGED <<in_flight, interviews, questions, answers, sessionIdleVars>>

NextSessions ==
    \E s \in UISessions :
        \/ BeginSetup(s)
        \/ EndSetup(s)
        \/ BeginSubmit(s)
        \/ EndSubmit(s)
        \/ NextQuestionIn(s)
        \/ ReturnToSetupIn(s)
        \/ ClickCompleteIn(s)
        \/ BeginComplete(s)
        \/ EndComplete(s)
        \/ ViewHistory(s)
        \/ Continue(s)
        \/ ViewReport(s)
        \/ ReturnHome(s)

SpecSessions == InitSessions /\ [][NextSessions]_vars

-----------------------------------------------------------------------------
(* Specification SpecCalls: the external calls of the two engines.  A call   *)
(* waits for the service; the service answers or fails, or the client's own  *)
(* timer ends the wait; then the engine method handles what arrived.         *)

InitCalls ==
    /\ engine_calls = [e \in Engines |-> NoEngineCall]
    /\ sessions = [s \in UISessions |-> NoSession]
    /\ in_flight = [s \in UISessions |-> NoCall]
    /\ query = NoQuery
    /\ narrative_prompt = NoPrompt
    /\ EvalIdle
    /\ ReportIdle
    /\ StoreIdle
    /\ GenIdle
    /\ FlowIdle

callIdleVars ==
    <<evalVars, reportVars, storeVars, first_report, genVars, flowVars, sessions, in_flight,
      query, narrative_prompt>>

\* An engine method is entered and reaches client.chat.completions.create.
StartCall(e) ==
    /\ engine_calls[e].state \in {"idle", "returned"}
    /\ \E op \in EngineOps :
          engine_calls' = [engine_calls EXCEPT ![e] =
                              [op |-> op, state |-> "waiting", service |-> "none",
                               outcome |-> "none"]]
    /\ UNCHANGED callIdleVars

\* The service answers the call, with a JSON object or with content that is
\* not one, or the call fails with an API error.
ServiceAnswers(e) ==
    /\ engine_calls[e].state = "waiting"
    /\ \E service \in ServiceOutcomes \ {"timeout"} :
          engine_calls' = [engine_calls EXCEPT ![e].state = "arrived",
                                               ![e].service = service]
    /\ UNCHANGED callIdleVars

\* The service has not answered and the client gives up: the client is built
\* without a timeout argument and times a request out by its default.
ClientTimesOut(e) ==
    /\ engine_calls[e].state = "waiting"
    /\ client_times_out
    /\ engine_calls' = [engine_calls EXCEPT ![e].state = "arrived",
                                            ![e].service = "timeout"]
    /\ UNCHANGED callIdleVars

\* The engine method handles what arrived, and ends.
Return(e) ==
    /\ engine_calls[e].state = "arrived"
    /\ engine_calls' =
          [engine_calls EXCEPT
              ![e].state = "returned",
              ![e].outcome = engine_outcome(e, engine_calls[e].op, engine_calls[e].service)]
    /\ UNCHANGED callIdleVars

NextCalls ==
    \E e \in Engines :
        \/ StartCall(e)
        \/ ServiceAnswers(e)
        \/ ClientTimesOut(e)
        \/ Return(e)

SpecCalls == InitCalls /\ [][NextCalls]_vars

\* A waiting call is not left waiting for ever by the client's timer, and an
\* engine method that has what it waited for goes on.
SpecCallsFair ==
    SpecCalls /\ \A e \in Engines : WF_vars(ClientTimesOut(e)) /\ WF_vars(Return(e))

-----------------------------------------------------------------------------
(* Specification SpecQuery: runs of execute_query, one pass through the body *)
(* of its loop at a time                                                     *)

InitQuery ==
    /\ query = NoQuery
    /\ narrative_prompt = NoPrompt
    /\ sessions = [s \in UISessions |-> NoSession]
    /\ in_flight = [s \in UISessions |-> NoCall]
    /\ engine_calls = [e \in Engines |-> NoEngineCall]
    /\ EvalIdle
    /\ ReportIdle
    /\ StoreIdle
    /\ GenIdle
    /\ FlowIdle

queryIdleVars ==
    <<evalVars, reportVars, storeVars, first_report, genVars, flowVars, sessions, in_flight,
      engine_calls, narrative_prompt>>

\* execute_query is called, with fetch or without: retries = 0, last_error = None.
StartQuery ==
    /\ query.pc \in {"idle", "returned", "raised"}
    /\ \E fetch \in BOOLEAN :
          query' = [NoQuery EXCEPT !.pc = "loop", !.fetch = fetch]
    /\ UNCHANGED queryIdleVars

\* One pass through the body of the while loop.  A closed connection makes the
\* pass continue without counting; rows are committed and returned; an empty
\* result of a fetch is returned before the commit; a connection error counts
\* a retry and is kept as last_error; any other error is raised at once, after
\* a rollback when the name conn is bound (get_connection has yielded in this
\* pass or in an earlier one).
Attempt ==
    /\ query.pc = "loop"
    /\ query.retries < max_retries
    /\ \E closed \in ConnClosed, outcome \in AttemptOutcomes, yielded \in BOOLEAN :
          LET bound == query.conn_bound \/ yielded
          IN  /\ outcome \in {"rows", "empty"} => yielded
              /\ query' =
                    IF closed
                    THEN [query EXCEPT !.attempts = @ + 1, !.conn_bound = bound]
                    ELSE IF outcome = "rows" \/ (outcome = "empty" /\ ~query.fetch)
                    THEN [query EXCEPT !.attempts = @ + 1, !.pc = "returned",
                                       !.outcome = IF query.fetch THEN "rows" ELSE "None",
                                       !.committed = TRUE, !.conn_bound = bound]
                    ELSE IF outcome = "empty"
                    THEN [query EXCEPT !.attempts = @ + 1, !.pc = "returned",
                                       !.outcome = "[]", !.conn_bound = bound]
                    ELSE IF retried(outcome)
                    THEN [query EXCEPT !.attempts = @ + 1, !.retries = @ + 1,
                                       !.errors = Append(@, outcome), !.conn_bound = bound]
                    ELSE [query EXCEPT !.attempts = @ + 1, !.pc = "raised",
                                       !.outcome = "raised", !.raised_error = outcome,
                                       !.conn_bound = bound, !.rollback_tried = bound]
    /\ UNCHANGED queryIdleVars

\* The loop is left with the retries used up: last_error is raised.
RaiseLastError ==
    /\ query.pc = "loop"
    /\ query.retries >= max_retries
    /\ query' = [query EXCEPT !.pc = "raised", !.outcome = "raised",
                              !.raised_error = query.errors[Len(query.errors)]]
    /\ UNCHANGED queryIdleVars

NextQuery == StartQuery \/ Attempt \/ RaiseLastError

SpecQuery == InitQuery /\ [][NextQuery]_vars

\* A pass through the loop ends (each blocking call in it returns or raises),
\* and the statement after the loop is reached.
SpecQueryFair == SpecQuery /\ WF_vars(Attempt) /\ WF_vars(RaiseLastError)

-----------------------------------------------------------------------------
(* Claims about generate_final_report, checked under SpecReport *)

IsScored(item) == item.answer.present /\ ~item.answer.skipped
IsSkipped(item) == item.answer.present /\ item.answer.skipped
NotSkipped(item) == ~IsSkipped(item)

\* The scored answers of a list, and the list with its skipped answers left out.
ScoredAnswers(results) == SelectSeq(results, IsScored)
WithoutSkipped(results) == SelectSeq(results, NotSkipped)

\* The categories with at least one scored (answered, not skipped) item.
ScoredCategories(results) ==
    {c \in CategorySet : \E i \in 1..Len(results) : IsScored(results[i]) /\ results[i].type = c}

FromService == final_report.returned /\ final_report.narrative = "service"
FromFallback == final_report.returned /\ final_report.narrative = "placeholder"

\* C1 (as claimed): a report of a session whose completion_rate is below 0.70
\* never recommends 'Hire'.
C1_NoHireBelow70 ==
    (final_report.returned /\ interview_results # <<>> /\ RateLess(completion_rate(interview_results), 70, 100)) =>
        final_report.recommendation # "Hire"

\* C2 (as claimed): with fewer than 2 scored answers the report recommends
\* 'Do Not Hire', is synthesized locally, and no narrative call was made.
C2_InsufficientData ==
    (final_report.returned /\ interview_results # <<>> /\ Len(ScoredAnswers(interview_results)) < 2) =>
        /\ final_report.recommendation = "Do Not Hire"
        /\ final_report.narrative = "local"
        /\ narrative_calls = 0

\* C3 (as claimed): a report of a session whose completion_rate is below 0.50
\* recommends 'Do Not Hire', whatever the narrative service proposes.
C3_DoNotHireBelow50 ==
    (final_report.returned /\ interview_results # <<>> /\ RateLess(completion_rate(interview_results), 50, 100)) =>
        final_report.recommendation = "Do Not Hire"

\* C4 (as claimed): when the narrative call fails the report is returned, not
\* raised, with recommendation 'Unable to determine' and with the scores and
\* the completion_rate computed locally from the answers.
C4_FallbackKeepsLocalScores ==
    /\ ~final_report.raised
    /\ FromFallback =>
          /\ final_report.recommendation = "Unable to determine"
          /\ final_report.scores = formatted_scores(interview_results)
          /\ RateEq(final_report.completion_rate, completion_rate(interview_results))

\* C5 (as claimed): the category scores and the overall score of the report are
\* those of the list with its skipped answers left out.
C5_SkippedNeverCounts ==
    FromService =>
        final_report.scores = formatted_scores(WithoutSkipped(interview_results))

\* The weighted mean of the report's averages over the categories in S.
MeanOver(results, S) ==
    LET avg == avg_scores(scores_by_type(results))
        L == DenProduct(avg, S)
        W == TotalWeight(S)
    IN  IF W > 0 THEN RoundTie(WeightedSum(avg, S, L), L * W) ELSE 0

\* C6 (as claimed): overall_score is the weighted mean of the category scores
\* over the categories with at least one scored answer, 0 when there is none.
C6_MeanOverScoredCategories ==
    FromService =>
        final_report.scores.overall = MeanOver(interview_results, ScoredCategories(interview_results))

\* The case of C7: the averages of technical, behavioral and problem_solving
\* are exactly 8, 6 and 4, and no item of type scenario has an answer.
AverageIs(results, c, v) ==
    LET a == avg_scores(scores_by_type(results))[c]
    IN  scores_by_type(results)[c] # <<>> /\ a.num = v * a.den

C7_Case ==
    /\ FromService
    /\ AverageIs(interview_results, "technical", 80)
    /\ AverageIs(interview_results, "behavioral", 60)
    /\ AverageIs(interview_results, "problem_solving", 40)
    /\ scores_by_type(interview_results)["scenario"] = <<>>

\* C7 (as claimed): in that case the overall score is 5.43.
C7_Overall543 == C7_Case => final_report.scores.overall * 10 = 543

\* C7 (amended): in that case the overall score is 6.7, which is
\* (8*0.4 + 6*0.15 + 4*0.15) / (0.4 + 0.15 + 0.15) = 6.714... at one decimal.
C7_Overall67 == C7_Case => final_report.scores.overall = 67

C7_Witness == C7_Case /\ Len(interview_results) = 3

-----------------------------------------------------------------------------
(* Claims about evaluate_answer, checked under SpecEval *)

AboveTen(raw) == raw.kind = "huge" \/ (raw.kind = "number" /\ raw.v > 1000)
BelowZero(raw) == raw.kind = "number" /\ raw.v < 0

\* C8 (as claimed): every returned Evaluation has its five numeric fields within
\* [0,10]; a field that is absent, None or non-numeric is 5.0, a value above 10
\* is 10 and a value below 0 is 0, for every output of the scorer.
C8_ClampAndDefault ==
    (evaluation.returned /\ scorer_output.kind = "object") =>
        \A f \in ScoreFieldSet :
            LET raw == scorer_output.scores[f]
                val == evaluation.scores[f]
            IN  /\ val \in 0..100
                /\ raw.kind \in {"absent", "null", "text"} => val = 50
                /\ AboveTen(raw) => val = 100
                /\ BelowZero(raw) => val = 0

\* C9: evaluate_answer never raises, and when the grading call fails (error,
\* unparsable or wrongly shaped response) it returns the placeholder Evaluation
\* whose five numeric fields are 5.0.
C9_NeverRaises ==
    /\ ~evaluation.raised
    /\ (evaluation.returned /\ scorer_output.kind \in FailureKinds) =>
          /\ evaluation.fallback
          /\ \A f \in ScoreFieldSet : evaluation.scores[f] = 50

C9_Witness ==
    /\ evaluation.returned
    /\ scorer_output.kind = "not_object"
    /\ evaluation.scores["score"] = 50

-----------------------------------------------------------------------------
(* Claims about the answer store, checked under SpecStore *)

\* C10 (as claimed): a submit or skip for a question that already has an Answer,
\* or for an id that is no question of the session, fails (an error reaches the
\* caller, be it raised or the None return) and leaves the stored answers as
\* they were.
C10_RejectsAnsweredQuestion ==
    (last_save.called /\ (last_save.answered_before \/ ~last_save.in_session)) =>
        /\ last_save.raised \/ last_save.returned = "None"
        /\ ~last_save.stored

\* The rows of interview_answers that answer question q.
AnswersTo(rows, q) == {i \in 1..Len(rows) : rows[i].question_id = q}

\* C11 (as claimed): in every reachable state of the store, after any sequence
\* of submit and skip saves on an interview, each question has at most one
\* Answer and the answers are no more than the questions.
C11_AtMostOneAnswer ==
    /\ \A q \in 1..Len(questions) : Cardinality(AnswersTo(answers, q)) <= 1
    /\ Len(answers) <= Len(questions)

-----------------------------------------------------------------------------
(* Claims about generate_questions, checked under SpecGenerate *)

\* C14: for every target count N of 5..40 the four quotas are floor(0.4 N),
\* floor(0.3 N), floor(0.2 N) and the remainder, each is at least 0, and they
\* sum to exactly N.
C14_QuotasSumToTarget ==
    generated.returned =>
        LET q == generated.quotas
            N == num_questions
        IN  /\ 10 * q.technical <= 4 * N /\ 4 * N < 10 * (q.technical + 1)
            /\ 10 * q.scenario <= 3 * N /\ 3 * N < 10 * (q.scenario + 1)
            /\ 10 * q.behavioral <= 2 * N /\ 2 * N < 10 * (q.behavioral + 1)
            /\ q.technical >= 0 /\ q.scenario >= 0 /\ q.behavioral >= 0
            /\ q.problem_solving >= 0
            /\ q.technical + q.scenario + q.behavioral + q.problem_solving = N

C14_Witness ==
    /\ generated.returned
    /\ num_questions = 7
    /\ generated.quotas.problem_solving = 2

\* A response is malformed when the call failed, the content is no JSON object,
\* or the value under one of the four categories is no list of questions.
MalformedGeneration ==
    \/ generation.kind \in GenFailureKinds
    \/ \E i \in 1..Len(generation.entries) :
          /\ generation.entries[i].key \in CategorySet
          /\ generation.entries[i].shape # "list"

AllCategoriesEmpty(result) ==
    \A c \in CategorySet :
        \E i \in 1..Len(result) : result[i] = EmptyList(c)

\* C15 (as claimed): generate_questions never raises, and when the generation
\* call fails or returns a malformed response the mapping it returns has all
\* four categories empty.
C15_FailureGivesEmptyCategories ==
    /\ ~generated.raised
    /\ (generated.returned /\ MalformedGeneration) => AllCategoriesEmpty(generated.result)

-----------------------------------------------------------------------------
(* Claims about the interview flow, checked under SpecFlow *)

\* The interviews whose status is 'completed'.
Completed(rows) == {i \in 1..Len(rows) : rows[i].status = "completed"}

\* A step in which interview i becomes 'completed'.
BecomesCompleted(i) == i \in Completed(interviews') /\ i \notin Completed(interviews)

\* C12: an interview's status becomes 'completed' only in a run of the
\* completion page, which the session reaches only by the click on "Complete
\* Interview"; a step that saves an answer or a skip, the last one included,
\* changes no status.
C12_CompletedOnlyByAction ==
    [][/\ \A i \in 1..Len(interviews') :
             BecomesCompleted(i) =>
                 /\ session.interview_complete
                 /\ last_op'.op = "complete" /\ last_op'.interview_id = i
                 /\ answers' = answers
       /\ (session'.interview_complete /\ ~session.interview_complete) =>
              last_op'.op = "click_complete"
       /\ answers' # answers => Completed(interviews') = Completed(interviews)]_vars

\* An interview was completed by a run of the completion page.
C12_Witness ==
    /\ last_op.op = "complete" /\ last_op.saved
    /\ last_op.interview_id \in Completed(interviews)
    /\ session.interview_complete

\* The items of interview i as the interview interface reads them.
ItemsOf(i) == get_interview_answers(questions, answers, i, "ok")

\* C13: the question offered for answering is the first in display order with
\* no Answer, so in every reachable state the answered questions of an
\* interview are a prefix of its questions in display order: no question with
\* an Answer comes after one without, and a save is for the question right
\* after the answered ones.
C13_AnsweredIsPrefix ==
    /\ \A i \in 1..Len(interviews) :
          LET items == ItemsOf(i)
          IN  \A j, k \in 1..Len(items) :
                  (j < k /\ Answered(items[k])) => Answered(items[j])
    /\ (last_op.op \in {"submit", "skip"} /\ last_op.saved) =>
          LET ids == QuestionIds(questions, last_op.interview_id)
          IN  \E k \in 1..Len(ids) :
                  /\ ids[k] = last_op.question_id
                  /\ \A j \in 1..Len(ids) : HasAnswer(answers, ids[j]) <=> j <= k

\* An interview of two questions or more of which the first is answered and
\* the last is not.
C13_Witness ==
    \E i \in 1..Len(interviews) :
        LET items == ItemsOf(i)
        IN  /\ Len(items) >= 2
            /\ Answered(items[1])
            /\ ~Answered(items[Len(items)])
            /\ last_op.saved /\ last_op.interview_id = i

\* C16 (as claimed): when the generation yields an empty question set, no
\* question is stored, the flow does not advance to the interview interface
\* (interview_setup_complete stays false), and the interview of that setup is
\* not among the in-progress interviews.
C16_EmptySetupIsIncomplete ==
    (last_setup.called /\ last_setup.generated_empty) =>
        /\ last_setup.stored = 0
        /\ ~last_setup.advanced
        /\ ~session.interview_setup_complete
        /\ last_setup.interview_id \notin get_in_progress_interviews(interviews)

\* The questions of interview i, in display order.
QuestionsOf(i) ==
    LET ids == QuestionIds(questions, i)
    IN  [k \in 1..Len(ids) |-> questions[ids[k]]]

\* C17 (as claimed): the questions of a session get orders that are unique
\* within the session, and the orders follow the concatenation of the
\* categories in the fixed sequence technical, scenario, behavioral,
\* problem_solving, whatever order the generation service returned them in.
C17_OrderFollowsFixedSequence ==
    \A i \in 1..Len(interviews) :
        LET qs == QuestionsOf(i)
        IN  /\ \A j, k \in 1..Len(qs) :
                   j # k => qs[j].display_order # qs[k].display_order
            /\ \A j, k \in 1..Len(qs) :
                   (qs[j].display_order < qs[k].display_order
                    /\ qs[j].type \in CategorySet /\ qs[k].type \in CategorySet)
                       => TypeIndex(qs[j].type) <= TypeIndex(qs[k].type)

\* C18: a skip calls the scorer not at all and stores, when the INSERT goes
\* through, one Answer for the current question, marked skipped, with score 0
\* and response time 0; it stores nothing else.
C18_SkipStoresUngradedZero ==
    last_op.op = "skip" =>
        /\ ~last_op.scorer_called
        /\ Len(last_op.added) = (IF last_op.saved THEN 1 ELSE 0)
        /\ \A i \in 1..Len(last_op.added) :
              /\ last_op.added[i].question_id = last_op.question_id
              /\ last_op.added[i].skipped
              /\ last_op.added[i].score = 0
              /\ last_op.added[i].response_time = 0
        /\ last_op.saved => last_op.added[1] = answers[Len(answers)]

\* A skip whose Answer was stored.
C18_Witness ==
    /\ last_op.op = "skip" /\ last_op.saved
    /\ answers # <<>>
    /\ answers[Len(answers)].skipped
    /\ answers[Len(answers)].question_id = last_op.question_id

\* The questions of interview i that have an Answer, skipped ones included.
AnsweredQuestions(i) ==
    {q \in 1..Len(questions) : questions[q].interview_id = i /\ HasAnswer(answers, q)}

\* C20 (as claimed): the completion_rate of every report stored at completion
\* is the number of questions of the session that have an Answer divided by the
\* number of its questions, 0 when it has no question, and lies in [0, 1].
C20_StoredCompletionRate ==
    \A i \in Completed(interviews) :
        LET rate == interviews[i].report_data.completion_rate
            total == Len(QuestionIds(questions, i))
        IN  /\ rate.d > 0 /\ 0 <= rate.n /\ rate.n <= rate.d
            /\ IF total = 0 THEN rate.n = 0
               ELSE rate.n * total = Cardinality(AnsweredQuestions(i)) * rate.d

-----------------------------------------------------------------------------
(* Claims about repeated runs of generate_final_report, checked under        *)
(* SpecRerun                                                                 *)

\* C19 (as claimed): two runs of the report on the same list of results give
\* the same completion_rate, the same four category scores and the same
\* overall score, whatever the narrative call returned in each run.
C19_SameNumbersOnRerun ==
    (first_report.returned /\ final_report.returned) =>
        /\ first_report.completion_rate = final_report.completion_rate
        /\ first_report.scores = final_report.scores

-----------------------------------------------------------------------------
(* Claims about two browser sessions, checked under SpecSessions *)

-----------------------------------------------------------------------------
(* Claims about the external calls of the engines, checked under SpecCalls   *)
(* and SpecCallsFair *)

-----------------------------------------------------------------------------
(* Further claims about the interview flow, checked under SpecFlow *)

\* C23: the recommendation of every report that was produced and stored is
\* one of 'Hire', 'Consider' and 'Do Not Hire'.
C23_RecommendationIsOneOfThree ==
    \A i \in Completed(interviews) :
        interviews[i].report_data.recommendation \in {"Hire", "Consider", "Do Not Hire"}

\* C24: the progress of an interview is the number of its questions that
\* have an Answer and the number of its questions, and the first is at most
\* the second.
C24_ProgressCountsQuestions ==
    \A i \in 1..Len(interviews) :
        LET p == progress(ItemsOf(i))
        IN  /\ p.answered_questions = Cardinality(AnsweredQuestions(i))
            /\ p.total_questions = Len(QuestionIds(questions, i))
            /\ p.answered_questions <= p.total_questions

\* An interview of two questions, the first one skipped: progress is 1 of 2.
C24_Witness ==
    \E i \in 1..Len(interviews) :
        /\ progress(ItemsOf(i)) = [answered_questions |-> 1, total_questions |-> 2]
        /\ \E k \in 1..Len(answers) : answers[k].skipped

-----------------------------------------------------------------------------
(* Further claims about generate_final_report, checked under SpecReport *)

\* C25: the scores and the completion_rate of a returned report are the
\* values computed locally from the answers, whatever came of the narrative
\* call.
C25_NumbersAreLocal ==
    final_report.returned =>
        /\ final_report.scores = formatted_scores(interview_results)
        /\ RateEq(final_report.completion_rate, completion_rate(interview_results))

-----------------------------------------------------------------------------
(* Claims about the stored questions and the completed interviews, checked   *)
(* under SpecFlow *)

\* C26: every stored question has one of the four categories as its type,
\* whatever keys the generation service returned.
C26_StoredCategoryIsOneOfFour ==
    \A q \in 1..Len(questions) : questions[q].type \in CategorySet

-----------------------------------------------------------------------------
(* Claims about the two engines, checked under SpecCalls *)

\* C27: the legacy engine and the new engine end corresponding operations
\* with the same kind of outcome when the service did the same, and both
\* return a fallback, instead of raising, when the external call fails.
C27_EnginesAgree ==
    /\ \A e1 \in Engines, e2 \in Engines :
          (/\ engine_calls[e1].state = "returned"
           /\ engine_calls[e2].state = "returned"
           /\ engine_calls[e1].op = engine_calls[e2].op
           /\ engine_calls[e1].service = engine_calls[e2].service)
              => engine_calls[e1].outcome = engine_calls[e2].outcome
    /\ \A e \in Engines :
          (engine_calls[e].state = "returned"
             /\ engine_calls[e].service \in {"api_error", "timeout"})
              => engine_calls[e].outcome = "fallback"

\* C28: an interview whose status is 'completed' has at least one Answer.
C28_CompletedHasAnAnswer ==
    \A i \in Completed(interviews) : AnsweredQuestions(i) # {}

\* The completion page has just completed an interview all of whose Answers
\* are skips.
C28_Witness ==
    /\ last_op.op = "complete"
    /\ last_op.interview_id \in Completed(interviews)
    /\ \A q \in AnsweredQuestions(last_op.interview_id) :
          \A k \in 1..Len(answers) : answers[k].question_id = q => answers[k].skipped

\* C29: a run of the completion page on an interview that is 'completed' and
\* has a stored report makes no narrative call and leaves the row of the
\* interview as it is.
C29_CompletedIsOnlyDisplayed ==
    [][(/\ view(session) = "complete"
        /\ session.current_interview_id \in Completed(interviews)
        /\ interviews[session.current_interview_id].report_data # NoReport)
          => /\ narrative_calls' = narrative_calls
             /\ interviews' = interviews]_vars

-----------------------------------------------------------------------------
(* Claims about execute_query, checked under SpecQueryFair *)

\* C30: execute_query always ends; it makes at most max_retries attempts,
\* tries again only after an OperationalError or an InterfaceError, raises
\* the last of these once the attempts are used up, and raises any other
\* error at once.
C30_QueryEndsWithinRetries ==
    /\ (query.pc = "loop") ~> (query.pc \in {"returned", "raised"})
    /\ [](/\ query.attempts <= max_retries
          /\ \A k \in 1..Len(query.errors) :
                query.errors[k] \in {"OperationalError", "InterfaceError"}
          /\ query.pc = "raised" =>
                IF query.retries = max_retries
                THEN query.raised_error = query.errors[max_retries]
                ELSE /\ query.raised_error \in {"ProgrammingError", "IntegrityError"}
                     /\ query.attempts = query.retries + 1)

\* The query has failed max_retries times on connection errors of both kinds
\* and the last of them was raised.
C30_Witness ==
    /\ query.pc = "raised"
    /\ query.attempts = max_retries
    /\ Len(query.errors) = max_retries
    /\ query.errors[1] # query.errors[max_retries]
    /\ query.raised_error = query.errors[max_retries]

-----------------------------------------------------------------------------
(* Claims about the completion page and the history page, checked under      *)
(* SpecFlow *)

\* C31: the answered and total question counts that generate_final_report
\* writes into the prompt of the narrative call are the real counts of the
\* interview: its questions that have an Answer, and its questions.
C31_PromptCountsAreReal ==
    (last_op.op = "complete" /\ narrative_prompt.written) =>
        /\ narrative_prompt.answered_questions
              = Cardinality(AnsweredQuestions(last_op.interview_id))
        /\ narrative_prompt.total_questions
              = Len(QuestionIds(questions, last_op.interview_id))

-----------------------------------------------------------------------------
(* Further claims about two browser sessions, checked under SpecSessions *)

\* C32: after 'Continue' or 'View Report' on the history page, the next view
\* of the session is the interview interface, respectively the report, of
\* the selected interview, and not the history page again.
C32_HistoryChoiceOpensInterview ==
    [][\A s \in UISessions :
          (/\ view(sessions[s]) = "history"
           /\ sessions'[s] # sessions[s]
           /\ sessions'[s].current_interview_id # 0)
             => view(sessions'[s]) =
                   IF sessions'[s].interview_complete THEN "complete" ELSE "interview"]_vars

C34_QuestionsAllOrNothing ==
    (last_setup.called /\ last_setup.interview_id # 0 /\ ~last_setup.advanced) =>
        /\ last_setup.stored = 0
        /\ QuestionIds(questions, last_setup.interview_id) = <<>>

\* What the submit and skip handlers of the interview interface report: after
\* save_interview_answer, whose return value is not looked at, st.success
\* ("Response recorded!" / "Question skipped!") is reached on every path on
\* which the call returned; neither evaluate_answer nor save_interview_answer
\* lets an exception escape.
success_reported(op) == op.op \in {"submit", "skip"}

\* C35 (as claimed): whenever the interview interface reported that a response
\* was recorded or a question was skipped, an Answer for that question exists
\* in the store and the next render of the interface presents another
\* question; when saving the Answer failed no success is reported.
C35_SuccessMeansSaved ==
    success_reported(last_op) =>
        /\ last_op.saved
        /\ \E k \in 1..Len(answers) : answers[k].question_id = last_op.question_id
        /\ InterviewShown => current_question(Joined) # last_op.question_id

\* C36: interview status is monotonic.  No row of interviews_new is ever
\* removed, a row that is 'completed' stays 'completed' in every step (also
\* when the completion page runs again on it), and every new row is created
\* 'in_progress'.
C36_StatusIsMonotonic ==
    [][/\ Len(interviews') >= Len(interviews)
       /\ \A i \in 1..Len(interviews) :
             interviews[i].status = "completed" => interviews'[i].status = "completed"
       /\ \A i \in (Len(interviews) + 1)..Len(interviews') :
             interviews'[i].status = "in_progress"]_vars

\* C36 witness: the completion page has generated a second report and
\* complete_interview has written the row of the one interview, which is
\* 'completed'.
C36_Witness ==
    /\ Len(interviews) = 1
    /\ interviews[1].status = "completed"
    /\ narrative_calls >= 2
    /\ last_op.op = "complete" /\ last_op.saved

(***************************************************************************)
(* Specification SpecRange: generate_final_report on results whose scores  *)
(* sit at the ends of the range [0,10], and a claim checked under it       *)
(***************************************************************************)

\* Stored scores at and next to the ends of the range, in tenths.
RangeScores == {0, 95, 100}

RangeItems == [type : QuestionTypes, answer : {NoAnswer} \cup {ScoredAnswer(v) : v \in RangeScores}]

RangeLists ==
    {s \in UNION {[1..k -> RangeItems] : k \in 0..MaxResults} : GroupedByType(s)}

InitRange ==
    /\ interview_results \in RangeLists
    /\ final_report = NoReport
    /\ narrative_calls = 0
    /\ float_tie \in {"down", "up"}
    /\ first_report = NoReport
    /\ EvalIdle
    /\ StoreIdle
    /\ GenIdle
    /\ FlowIdle
    /\ ExtraIdle

SpecRange == InitRange /\ [][NextReport]_vars

\* The scores a report carries: the four category scores and the overall one.
ReportScoreKeys == CategorySet \cup {"overall"}

\* C37: in every report computed from answers whose stored scores lie in
\* [0,10] (0..100 in tenths), each of the four category scores and the
\* overall score lies in [0,10], whether the narrative call answered or the
\* fallback report was returned.
C37_ReportScoresInRange ==
    (/\ final_report.returned
     /\ \A i \in 1..Len(interview_results) : interview_results[i].answer.score \in 0..100)
        => \A k \in ReportScoreKeys : final_report.scores[k] \in 0..100

\* C37 witness: a report of the narrative call over results that hold a
\* score of 0 and a score of 10, whose category scores reach both ends of the
\* range.
C37_Witness ==
    /\ final_report.returned /\ final_report.narrative = "service"
    /\ \E i, j \in 1..Len(interview_results) :
          /\ Answered(interview_results[i]) /\ interview_results[i].answer.score = 0
          /\ Answered(interview_results[j]) /\ interview_results[j].answer.score = 100
    /\ \E c, d \in CategorySet : final_report.scores[c] = 100 /\ final_report.scores[d] = 0
    /\ final_report.scores.overall \in 1..99

=============================================================================
